---- MODULE Spec2Model ----
(***************************************************************************)
(* A model of pypass.passwordstore.PasswordStore: path resolution and      *)
(* containment, recipient lookup, the tree walk, the entry operations      *)
(* (contains, list, read with field extraction, write, generate, remove,   *)
(* copy) and init, over a file system with directories, regular files and  *)
(* symbolic links, together with the commands insert, generate, edit, rm,  *)
(* cp and mv of pypass.command.                                            *)
(*                                                                         *)
(* A path is a sequence of names; a name is a sequence of text pieces, so  *)
(* that "a.gpg" is <<"a", ".gpg">> and appending the encryption suffix is  *)
(* an operation on the last name of a path.  Text (entry content, key      *)
(* ids) is a sequence of code points; file bodies are sequences of bytes.  *)
(***************************************************************************)
EXTENDS Integers, Sequences, FiniteSets, TLC

VARIABLES fs, hasCommonpath, uses_git, commits, last, ops

vars == <<fs, hasCommonpath, uses_git, commits, last, ops>>

(* ------------------------------ bounds --------------------------------- *)

\* number of store operations in one behaviour
MaxOps == 2

\* number of generate calls in one behaviour, and the longest password
MaxGenerate == 1
MaxLength == 1

\* the most lines an entry that is read by field has
MaxLines == 2

(* ------------------------------- names --------------------------------- *)

GPG_EXT == ".gpg"

A == <<"a">>
B == <<"b">>
C == <<"c">>
Home == <<"home">>
Store == <<"store">>
GpgIdName == <<".gpg-id">>
DotDot == <<"..">>
Dot == <<".">>

\* self.path: the absolute path of the store
StorePath == <<Home, Store>>

\* a directory next to the store, and the file next to the store that
\* carries the store's own name plus the encryption suffix
Outside == <<Home, A>>
StoreGpg == <<Home, <<"store", GPG_EXT>>>>

Front(s) == SubSeq(s, 1, Len(s) - 1)
Last(s) == s[Len(s)]
Reverse(s) == [i \in 1..Len(s) |-> s[Len(s) + 1 - i]]

\* q is p or lies below p
IsSubpath(p, q) == Len(p) <= Len(q) /\ SubSeq(q, 1, Len(p)) = p

RECURSIVE Concat(_)
Concat(ss) == IF ss = <<>> THEN <<>> ELSE Head(ss) \o Concat(Tail(ss))

(* ------------------------------- text ---------------------------------- *)

NL == 10
SP == 32

\* str.encode('latin-1') in place of UTF-8: one byte for each code point
encode_latin1(text) == text

\* str.encode(): UTF-8 of a sequence of code points below 2048
RECURSIVE encode(_)
encode(text) ==
    IF text = <<>> THEN <<>>
    ELSE LET cp == Head(text)
         IN  (IF cp < 128 THEN <<cp>>
              ELSE <<192 + (cp \div 64), 128 + (cp % 64)>>) \o encode(Tail(text))

\* bytes.decode(): the inverse reading of UTF-8
RECURSIVE decode(_)
decode(bytes) ==
    IF bytes = <<>> THEN <<>>
    ELSE LET b == Head(bytes)
         IN  IF b < 128 THEN <<b>> \o decode(Tail(bytes))
             ELSE IF Len(bytes) >= 2
                  THEN <<(b - 192) * 64 + (bytes[2] - 128)>>
                           \o decode(Tail(Tail(bytes)))
                  ELSE <<65533>>

IsSpace(cp) == cp \in {NL, SP}

RECURSIVE lstrip(_)
lstrip(text) ==
    IF text # <<>> /\ IsSpace(Head(text)) THEN lstrip(Tail(text)) ELSE text

\* str.strip()
strip(text) == Reverse(lstrip(Reverse(lstrip(text))))

(* ---------------------------- file system ------------------------------ *)

DirNode == [kind |-> "dir", target |-> <<>>, enc |-> FALSE, key |-> <<>>,
            body |-> <<>>]
LinkNode(t) == [kind |-> "link", target |-> t, enc |-> FALSE, key |-> <<>>,
                body |-> <<>>]
\* a regular file with plain bytes
PlainFile(bytes) == [kind |-> "file", target |-> <<>>, enc |-> FALSE,
                     key |-> <<>>, body |-> bytes]
\* a regular file holding bytes encrypted for recipient key
CipherFile(key, bytes) == [kind |-> "file", target |-> <<>>, enc |-> TRUE,
                           key |-> key, body |-> bytes]

\* os.path.realpath: every symbolic link on the way is followed
RECURSIVE RealFrom(_, _, _)
RealFrom(f, cur, rest) ==
    IF rest = <<>> THEN cur
    ELSE LET nxt == Append(cur, Head(rest))
         IN  IF nxt \in DOMAIN f /\ f[nxt].kind = "link"
             THEN RealFrom(f, f[nxt].target, Tail(rest))
             ELSE RealFrom(f, nxt, Tail(rest))

realpath(f, p) == RealFrom(f, <<>>, p)

\* the directory entry a path names: links are followed in the parent
\* only (what unlink and rmdir act on)
DirEntry(f, p) ==
    IF p = <<>> THEN <<>> ELSE Append(realpath(f, Front(p)), Last(p))

exists(f, p) == realpath(f, p) \in DOMAIN f
isdir(f, p) == LET r == realpath(f, p) IN r \in DOMAIN f /\ f[r].kind = "dir"
isfile(f, p) == LET r == realpath(f, p) IN r \in DOMAIN f /\ f[r].kind = "file"

Children(f, d) == {q \in DOMAIN f : Len(q) = Len(d) + 1 /\ Front(q) = d}

Without(f, e) == [q \in DOMAIN f \ {e} |-> f[q]]
With(f, e, node) == [q \in DOMAIN f \cup {e} |-> IF q = e THEN node ELSE f[q]]

\* os.remove: [ok, fs]; fails (OSError) on a missing path or a directory
os_remove(f, p) ==
    LET e == DirEntry(f, p)
    IN  IF e \in DOMAIN f /\ f[e].kind # "dir"
        THEN [ok |-> TRUE, fs |-> Without(f, e)]
        ELSE [ok |-> FALSE, fs |-> f]

\* os.rmdir: fails on a missing path, a non-directory (a link included),
\* a non-empty directory and on "/"
os_rmdir(f, p) ==
    LET e == DirEntry(f, p)
    IN  IF e # <<>> /\ e \in DOMAIN f /\ f[e].kind = "dir" /\ Children(f, e) = {}
        THEN [ok |-> TRUE, fs |-> Without(f, e)]
        ELSE [ok |-> FALSE, fs |-> f]

\* os.mkdir
os_mkdir(f, p) ==
    LET e == DirEntry(f, p)
    IN  IF p # <<>> /\ e \notin DOMAIN f /\ isdir(f, Front(p))
        THEN [ok |-> TRUE, fs |-> With(f, e, DirNode)]
        ELSE [ok |-> FALSE, fs |-> f]

\* os.makedirs: the missing ancestors first, then the leaf
RECURSIVE os_makedirs(_, _)
os_makedirs(f, p) ==
    IF p = <<>> THEN [ok |-> FALSE, fs |-> f]
    ELSE LET head == Front(p)
             r == IF head # <<>> /\ ~exists(f, head)
                  THEN os_makedirs(f, head)
                  ELSE [ok |-> TRUE, fs |-> f]
         IN  IF r.ok THEN os_mkdir(r.fs, p) ELSE [ok |-> FALSE, fs |-> f]

\* the loop of os.removedirs after its first rmdir: parents are removed
\* until one rmdir fails
RECURSIVE PruneUp(_, _)
PruneUp(f, head) ==
    IF head = <<>> THEN f
    ELSE LET r == os_rmdir(f, head)
         IN  IF r.ok THEN PruneUp(r.fs, Front(head)) ELSE f

\* os.removedirs: the first rmdir raises, the later ones do not
os_removedirs(f, p) ==
    LET r == os_rmdir(f, p)
    IN  IF r.ok THEN [ok |-> TRUE, fs |-> PruneUp(r.fs, Front(p))]
        ELSE [ok |-> FALSE, fs |-> f]

(* --------------------------- path handling ----------------------------- *)

\* os.path.normpath of an absolute path given by its components
RECURSIVE NormFrom(_, _)
NormFrom(acc, rest) ==
    IF rest = <<>> THEN acc
    ELSE LET c == Head(rest)
         IN  IF c = Dot THEN NormFrom(acc, Tail(rest))
             ELSE IF c = DotDot
                  THEN NormFrom(IF acc = <<>> THEN acc ELSE Front(acc), Tail(rest))
                  ELSE NormFrom(Append(acc, c), Tail(rest))

\* os.path.abspath
abspath(p) == NormFrom(<<>>, p)

\* os.path.commonpath of two absolute paths: the common leading components
RECURSIVE commonpath(_, _)
commonpath(p, q) ==
    IF p # <<>> /\ q # <<>> /\ Head(p) = Head(q)
    THEN <<Head(p)>> \o commonpath(Tail(p), Tail(q))
    ELSE <<>>

\* a path as the text os.path.commonprefix compares: each name preceded by
\* the separator
RECURSIVE PathText(_)
PathText(p) ==
    IF p = <<>> THEN <<>> ELSE <<"/">> \o Head(p) \o PathText(Tail(p))

\* os.path.commonprefix: the common leading text
RECURSIVE commonprefix(_, _)
commonprefix(s, t) ==
    IF s # <<>> /\ t # <<>> /\ Head(s) = Head(t)
    THEN <<Head(s)>> \o commonprefix(Tail(s), Tail(t))
    ELSE <<>>

\* str.startswith
startswith(s, prefix) ==
    Len(s) >= Len(prefix) /\ SubSeq(s, 1, Len(prefix)) = prefix

\* PasswordStore._is_valid_store_subpath; cp tells whether os.path has
\* commonpath (Python 3.5 and later) or the fallback runs
is_valid_store_subpath(cp, child_path) ==
    IF cp
    THEN commonpath(StorePath, StorePath) = commonpath(StorePath, child_path)
    ELSE startswith(commonprefix(PathText(StorePath), PathText(child_path)),
                    PathText(StorePath))

\* PasswordStore._resolve_path: [ok, path]; ~ok is ValueError
\* ("Couldn't resolve"), the spec's PathEscapeError
resolve_path(cp, path) ==
    LET file_path == abspath(StorePath \o path)
    IN  [ok |-> is_valid_store_subpath(cp, file_path), path |-> file_path]

\* '%s.gpg' % path
gpg_suffixed(p) == [p EXCEPT ![Len(p)] = Append(@, GPG_EXT)]

\* PasswordStore.__contains__ on a path that resolves
contains(f, cp, path) == isfile(f, gpg_suffixed(resolve_path(cp, path).path))

(* -------------------------- recipient lookup --------------------------- *)

\* PasswordStore._get_gpg_id from an absolute path upward: [ok, id]; ~ok is
\* Exception("could not find .gpg-id file"), the spec's NoRecipientError
RECURSIVE gpg_id_from(_, _, _)
gpg_id_from(f, cp, file_path) ==
    IF ~is_valid_store_subpath(cp, file_path) THEN [ok |-> FALSE, id |-> <<>>]
    ELSE LET gpg_id_path == Append(file_path, GpgIdName)
         IN  IF isfile(f, gpg_id_path)
             THEN [ok |-> TRUE,
                   id |-> strip(decode(f[realpath(f, gpg_id_path)].body))]
             ELSE gpg_id_from(f, cp, Front(file_path))

get_gpg_id(f, cp, file_location) == gpg_id_from(f, cp, abspath(file_location))

(* ------------------------------- walk ---------------------------------- *)

\* the names a directory can hold, in one enumeration order
NameOrder == <<<<".git">>, GpgIdName, <<GPG_EXT>>, A, <<"a", GPG_EXT>>, B, <<"b", GPG_EXT>>,
               C, <<"c", GPG_EXT>>, Store, <<"store", GPG_EXT>>, Home>>

\* os.scandir of top: the names in it, in the directory's enumeration
\* order (one order or its reverse); nothing when top is no directory
listdir(f, top, rev) ==
    LET real == realpath(f, top)
        names == SelectSeq(NameOrder, LAMBDA n : Append(real, n) \in DOMAIN f)
    IN  IF ~isdir(f, top) THEN <<>>
        ELSE IF rev THEN Reverse(names) ELSE names

\* the dirnames and filenames os.walk reports for top (followlinks=True: a
\* link to a directory counts as a directory)
dirnames(f, top, rev) ==
    SelectSeq(listdir(f, top, rev), LAMBDA n : isdir(f, Append(top, n)))
filenames(f, top, rev) ==
    SelectSeq(listdir(f, top, rev), LAMBDA n : ~isdir(f, Append(top, n)))

PathsIn(top, names, kind) ==
    [i \in 1..Len(names) |-> [kind |-> kind, path |-> Append(top, names[i])]]

\* a walk that reports top-down whatever the direction asked for
RECURSIVE walk_topdown_always(_, _, _, _)
walk_topdown_always(f, top, topdown, rev) ==
    LET dirs == dirnames(f, top, rev)
        here == PathsIn(top, dirs, "dir")
                    \o PathsIn(top, filenames(f, top, rev), "file")
        below == Concat([i \in 1..Len(dirs) |->
                            walk_topdown_always(f, Append(top, dirs[i]),
                                                topdown, rev)])
    IN  here \o below

\* PasswordStore._walk over a tree the callbacks leave alone: the sequence
\* of on_dir / on_file calls, each [kind, path]
RECURSIVE walk(_, _, _, _)
walk(f, top, topdown, rev) ==
    LET dirs == dirnames(f, top, rev)
        here == PathsIn(top, dirs, "dir")
                    \o PathsIn(top, filenames(f, top, rev), "file")
        below == Concat([i \in 1..Len(dirs) |->
                            walk(f, Append(top, dirs[i]), topdown, rev)])
    IN  IF topdown THEN here \o below ELSE below \o here

\* path.endswith('.gpg')
endswith_gpg(p) == p # <<>> /\ Last(p) # <<>> /\ Last(Last(p)) = GPG_EXT

\* path[offset:] in place of path[offset:-4]: the suffix stays
logical_name_suffixed(p, offset) == SubSeq(p, offset + 1, Len(p))

\* path[offset:-4]
logical_name(p, offset) ==
    LET rel == SubSeq(p, offset + 1, Len(p))
    IN  [rel EXCEPT ![Len(rel)] = Front(@)]

\* PasswordStore.get_passwords_list
get_passwords_list(f, cp, rev) ==
    LET root == resolve_path(cp, <<>>).path
        visits == SelectSeq(walk(f, root, TRUE, rev),
                            LAMBDA v : v.kind = "file" /\ endswith_gpg(v.path))
    IN  [i \in 1..Len(visits) |-> logical_name(visits[i].path, Len(root))]

(* --------------------------- read and write ---------------------------- *)

Outcome(result, f, ret, calls, file) ==
    [result |-> result, fs |-> f, ret |-> ret, calls |-> calls, file |-> file]

\* PasswordStore._walk(path, on_dir, on_file, topdown) with callbacks that
\* leave the tree alone; has_on_dir and has_on_file tell whether the
\* callback is given (not None); calls are the callbacks made, in order
store_walk(f, cp, path, has_on_dir, has_on_file, topdown, rev) ==
    LET root == resolve_path(cp, path)
        visits == SelectSeq(walk(f, root.path, topdown, rev),
                            LAMBDA v : \/ v.kind = "dir" /\ has_on_dir
                                       \/ v.kind = "file" /\ has_on_file)
    IN  IF ~root.ok THEN Outcome("PathEscapeError", f, <<>>, <<>>, <<>>)
        ELSE Outcome("ok", f, <<>>, visits, root.path)

\* the encryption backend writing to passfile_path: it fails when the
\* backend fails (backendOk) or the output cannot be a regular file
gpg_encrypt(f, passfile_path, key, bytes, backendOk) ==
    IF backendOk /\ isdir(f, Front(passfile_path)) /\ ~isdir(f, passfile_path)
    THEN [ok |-> TRUE,
          fs |-> With(f, realpath(f, passfile_path), CipherFile(key, bytes))]
    ELSE [ok |-> FALSE, fs |-> f]

\* the encryption backend decrypting passfile_path
gpg_decrypt(f, passfile_path, backendOk) ==
    IF backendOk /\ isfile(f, passfile_path) /\ f[realpath(f, passfile_path)].enc
    THEN [ok |-> TRUE, bytes |-> f[realpath(f, passfile_path)].body]
    ELSE [ok |-> FALSE, bytes |-> <<>>]

\* PasswordStore.get_decrypted_password(path) with entry=None
get_decrypted_password(f, cp, path, backendOk) ==
    LET r == resolve_path(cp, path)
        passfile_path == gpg_suffixed(r.path)
        gpg == gpg_decrypt(f, passfile_path, backendOk)
    IN  IF ~r.ok THEN Outcome("PathEscapeError", f, <<>>, <<>>, <<>>)
        ELSE IF gpg.ok
             THEN Outcome("ok", f, <<decode(gpg.bytes)>>, <<>>, passfile_path)
             ELSE Outcome("DecryptionError", f, <<>>, <<>>, passfile_path)

\* PasswordStore.insert_password
insert_password(f, cp, path, password, backendOk) ==
    LET r == resolve_path(cp, path)
        passfile_path == gpg_suffixed(r.path)
        parent == Front(passfile_path)
        made == IF ~isdir(f, parent) THEN os_makedirs(f, parent)
                ELSE [ok |-> TRUE, fs |-> f]
        id == get_gpg_id(made.fs, cp, passfile_path)
        gpg == gpg_encrypt(made.fs, passfile_path, id.id, encode(password),
                           backendOk)
    IN  IF ~r.ok THEN Outcome("PathEscapeError", f, <<>>, <<>>, <<>>)
        ELSE IF ~made.ok THEN Outcome("OSError", f, <<>>, <<>>, passfile_path)
        ELSE IF ~id.ok
             THEN Outcome("NoRecipientError", made.fs, <<>>, <<>>, passfile_path)
        ELSE Outcome("ok", gpg.fs, <<>>, <<>>, passfile_path)

(* ------------------------------ fields --------------------------------- *)

\* the words of the patterns of get_decrypted_password, as code points:
\* '(?:username|user|login): (.+)', '(?:password|pass): (.+)' and
\* '(?:host|hostname): (.+)'
W_username == <<117, 115, 101, 114, 110, 97, 109, 101>>
W_user == <<117, 115, 101, 114>>
W_login == <<108, 111, 103, 105, 110>>
W_password == <<112, 97, 115, 115, 119, 111, 114, 100>>
W_pass == <<112, 97, 115, 115>>
W_host == <<104, 111, 115, 116>>
W_hostname == <<104, 111, 115, 116, 110, 97, 109, 101>>
COLON_SPACE == <<58, SP>>

UsernameWords == <<W_username, W_user, W_login>>
PasswordWords == <<W_password, W_pass>>
HostnameWords == <<W_host, W_hostname>>

\* the characters of text from position i up to the next line break: what
\* (.+) takes, '.' matching everything but the line break
RECURSIVE dot_plus(_, _)
dot_plus(text, i) ==
    IF i > Len(text) \/ text[i] = NL THEN <<>>
    ELSE <<text[i]>> \o dot_plus(text, i + 1)

\* the pattern '(?:w1|w2|...): (.+)' tried at position i of text, the
\* words in their order: [found, group]
RECURSIVE match_at(_, _, _)
match_at(words, text, i) ==
    IF words = <<>> THEN [found |-> FALSE, group |-> <<>>]
    ELSE LET lead == Head(words) \o COLON_SPACE
             after == i + Len(lead)
         IN  IF after - 1 <= Len(text) /\ SubSeq(text, i, after - 1) = lead
                 /\ dot_plus(text, after) # <<>>
             THEN [found |-> TRUE, group |-> dot_plus(text, after)]
             ELSE match_at(Tail(words), text, i)

\* a search that keeps the last match of the text
RECURSIVE re_search_last(_, _, _)
re_search_last(words, text, i) ==
    IF i > Len(text) THEN [found |-> FALSE, group |-> <<>>]
    ELSE LET later == re_search_last(words, text, i + 1)
         IN  IF later.found THEN later ELSE match_at(words, text, i)

\* re.search(pattern, text) from position i on: the leftmost match
RECURSIVE re_search(_, _, _)
re_search(words, text, i) ==
    IF i > Len(text) THEN [found |-> FALSE, group |-> <<>>]
    ELSE LET here == match_at(words, text, i)
         IN  IF here.found THEN here ELSE re_search(words, text, i + 1)

\* decrypted_password.split('\n')[0]
first_line(text) == dot_plus(text, 1)

\* PasswordStore.get_decrypted_password(path, entry); entry is "None" or a
\* member of EntryType; ret is <<>> where the method returns None
get_decrypted_password_entry(f, cp, path, entry, backendOk) ==
    LET whole == get_decrypted_password(f, cp, path, backendOk)
        decrypted_password == whole.ret[1]
        usr == re_search(UsernameWords, decrypted_password, 1)
        pw == re_search(PasswordWords, decrypted_password, 1)
        hostname == re_search(HostnameWords, decrypted_password, 1)
    IN  IF whole.result # "ok" THEN whole
        ELSE IF entry = "username"
             THEN [whole EXCEPT !.ret = IF usr.found THEN <<usr.group>> ELSE <<>>]
        ELSE IF entry = "password"
             THEN [whole EXCEPT !.ret = IF pw.found THEN <<pw.group>>
                                        ELSE <<first_line(decrypted_password)>>]
        ELSE IF entry = "hostname"
             THEN [whole EXCEPT !.ret = IF hostname.found THEN <<hostname.group>>
                                        ELSE <<>>]
        ELSE whole

(* ------------------------------ remove --------------------------------- *)

\* on_entry, given by the set of paths it answers false for
on_entry(declined, name) == name \notin declined

\* the walk of remove without its on_dir callback: files only
remove_visit_files(st, declined, v) ==
    LET r == os_remove(st.fs, v.path)
    IN  IF st.err \/ v.kind = "dir" THEN st
        ELSE IF v.path \notin declined
             THEN [fs |-> r.fs, calls |-> Append(st.calls, v.path), err |-> ~r.ok]
             ELSE [st EXCEPT !.calls = Append(@, v.path)]

\* one callback of the walk in remove:
\*   on_dir  = lambda name: on_entry(name) and os.rmdir(name)
\*   on_file = lambda name: on_entry(name) and os.remove(name)
\* st is [fs, calls, err]; err: the OSError of rmdir/remove left the walk
remove_visit(st, declined, v) ==
    LET r == IF v.kind = "dir" THEN os_rmdir(st.fs, v.path)
             ELSE os_remove(st.fs, v.path)
    IN  IF st.err THEN st
        ELSE IF on_entry(declined, v.path)
             THEN [fs |-> r.fs, calls |-> Append(st.calls, v.path), err |-> ~r.ok]
             ELSE [st EXCEPT !.calls = Append(@, v.path)]

RECURSIVE remove_visits(_, _, _)
remove_visits(st, declined, vs) ==
    IF vs = <<>> THEN st
    ELSE remove_visits(remove_visit(st, declined, Head(vs)), declined, Tail(vs))

\* self._walk(path, topdown=False, ...) of remove: os.walk scans top, walks
\* each directory in it, and only then reports top's directories and files
RECURSIVE walk_remove(_, _, _, _)
RECURSIVE walk_remove_dirs(_, _, _, _, _)
walk_remove(st, top, declined, rev) ==
    LET dirs == dirnames(st.fs, top, rev)
        files == filenames(st.fs, top, rev)
        below == walk_remove_dirs(st, top, dirs, declined, rev)
    IN  IF st.err THEN st
        ELSE remove_visits(below, declined,
                           PathsIn(top, dirs, "dir") \o PathsIn(top, files, "file"))

walk_remove_dirs(st, top, dirs, declined, rev) ==
    IF dirs = <<>> THEN st
    ELSE walk_remove_dirs(walk_remove(st, Append(top, Head(dirs)), declined, rev),
                          top, Tail(dirs), declined, rev)

\* the entry branch of remove: os.remove, then os.removedirs on the parent
\* with its OSError swallowed
remove_entry(f, declined, entry_path) ==
    LET removed == os_remove(f, entry_path)
        pruned == os_removedirs(removed.fs, Front(entry_path))
    IN  IF on_entry(declined, entry_path)
        THEN IF removed.ok THEN Outcome("ok", pruned.fs, <<>>, <<entry_path>>, entry_path)
             ELSE Outcome("OSError", f, <<>>, <<entry_path>>, entry_path)
        ELSE Outcome("ok", f, <<>>, <<entry_path>>, entry_path)

\* the walk of the directory branch of remove: the bottom-up walk, then
\* on_entry(resolved_path) and os.rmdir(resolved_path) with its OSError
\* swallowed
remove_dir(f, declined, rev, resolved_path, file) ==
    LET w == walk_remove([fs |-> f, calls |-> <<>>, err |-> FALSE],
                         resolved_path, declined, rev)
        top == os_rmdir(w.fs, resolved_path)
    IN  IF w.err THEN Outcome("OSError", w.fs, <<>>, w.calls, file)
        ELSE IF on_entry(declined, resolved_path)
             THEN Outcome("ok", top.fs, <<>>, Append(w.calls, resolved_path), file)
             ELSE Outcome("ok", w.fs, <<>>, Append(w.calls, resolved_path), file)

\* the directory branch of remove without the check of recursive
remove_directory_unchecked(f, recursive, declined, rev, resolved_path, file) ==
    remove_dir(f, declined, rev, resolved_path, file)

\* the directory branch of remove: ValueError ("is a directory, but
\* recursive is False", the spec's NotRecursiveError) unless recursive
remove_directory(f, recursive, declined, rev, resolved_path, file) ==
    IF ~recursive THEN Outcome("NotRecursiveError", f, <<>>, <<>>, file)
    ELSE remove_dir(f, declined, rev, resolved_path, file)

\* the branches of remove tried in the other order: the directory first
remove_branch_directory_first(f, cp, path, resolved_path) ==
    IF isdir(f, resolved_path) THEN "directory"
    ELSE IF contains(f, cp, path) THEN "entry"
    ELSE "none"

\* which branch of remove a resolved path takes: the entry first, then the
\* directory, else OSError(ENOENT), the spec's NotFoundError
remove_branch(f, cp, path, resolved_path) ==
    IF contains(f, cp, path) THEN "entry"
    ELSE IF isdir(f, resolved_path) THEN "directory"
    ELSE "none"

\* PasswordStore.remove
remove(f, cp, path, recursive, declined, rev) ==
    LET r == resolve_path(cp, path)
        resolved_path == r.path
        entry_path == gpg_suffixed(resolved_path)
        branch == remove_branch(f, cp, path, resolved_path)
    IN  IF ~r.ok THEN Outcome("PathEscapeError", f, <<>>, <<>>, <<>>)
        ELSE IF branch = "entry" THEN remove_entry(f, declined, entry_path)
        ELSE IF branch = "directory"
             THEN remove_directory(f, recursive, declined, rev, resolved_path,
                                   entry_path)
        ELSE Outcome("NotFoundError", f, <<>>, <<>>, entry_path)

(* -------------------------------- copy --------------------------------- *)

\* os.path.basename of a relative path that does not end in a separator
basename(path) == IF path = <<>> THEN <<>> ELSE Last(path)

\* shutil.copy2(src, dst): [err, fs]; the bytes go over as they are.  A
\* destination that is a directory takes the file under the source's name;
\* source and destination the same file is SameFileError; a destination
\* whose directory is missing is OSError
shutil_copy2(f, src, dst) ==
    LET to == IF isdir(f, dst) THEN Append(dst, Last(src)) ELSE dst
    IN  IF ~isfile(f, src) THEN [err |-> "OSError", fs |-> f]
        ELSE IF exists(f, to) /\ realpath(f, to) = realpath(f, src)
             THEN [err |-> "SameFileError", fs |-> f]
        ELSE IF ~isdir(f, Front(to)) \/ isdir(f, to)
             THEN [err |-> "OSError", fs |-> f]
        ELSE [err |-> "", fs |-> With(f, realpath(f, to), f[realpath(f, src)])]

\* on_overwrite, given by the set of destination files it answers false for
on_overwrite(refused, old, new) == new \notin refused

\* (not os.path.isfile(new) or on_overwrite(old, new)) and
\* shutil.copy2(old, new); st is [fs, calls, err], calls the on_overwrite
\* calls made, each <<old, new>>, err the exception that ended the copy
copy_file(st, refused, old, new) ==
    LET c == shutil_copy2(st.fs, old, new)
    IN  IF ~isfile(st.fs, new)
        THEN [fs |-> c.fs, calls |-> st.calls, err |-> c.err]
        ELSE IF on_overwrite(refused, old, new)
             THEN [fs |-> c.fs, calls |-> Append(st.calls, <<old, new>>),
                   err |-> c.err]
             ELSE [st EXCEPT !.calls = Append(@, <<old, new>>)]

\* new(old) of copy: old[offset:] joined to the destination root
new_of(resolved_old_path, resolved_new_path, old) ==
    resolved_new_path \o SubSeq(old, Len(resolved_old_path) + 1, Len(old))

\* on_dir of copy: old != resolved_new_path and os.mkdir(new(old))
copy_dir(st, resolved_old_path, resolved_new_path, old) ==
    LET made == os_mkdir(st.fs, new_of(resolved_old_path, resolved_new_path, old))
    IN  IF old = resolved_new_path THEN st
        ELSE [st EXCEPT !.fs = made.fs,
                        !.err = IF made.ok THEN "" ELSE "OSError"]

\* one callback of the walk in copy
copy_visit(st, refused, resolved_old_path, resolved_new_path, v) ==
    IF st.err # "" THEN st
    ELSE IF v.kind = "dir"
         THEN copy_dir(st, resolved_old_path, resolved_new_path, v.path)
         ELSE copy_file(st, refused, v.path,
                        new_of(resolved_old_path, resolved_new_path, v.path))

RECURSIVE copy_visits(_, _, _, _, _)
copy_visits(st, refused, resolved_old_path, resolved_new_path, vs) ==
    IF vs = <<>> THEN st
    ELSE copy_visits(copy_visit(st, refused, resolved_old_path,
                                resolved_new_path, Head(vs)),
                     refused, resolved_old_path, resolved_new_path, Tail(vs))

\* self._walk(resolved_old_path, ...) of copy, top-down: os.walk scans top,
\* reports its directories and files, and then walks each directory it
\* found, scanning it as it is by then
RECURSIVE walk_copy(_, _, _, _, _, _)
RECURSIVE walk_copy_dirs(_, _, _, _, _, _, _)
walk_copy(st, top, refused, rev, resolved_old_path, resolved_new_path) ==
    LET dirs == dirnames(st.fs, top, rev)
        files == filenames(st.fs, top, rev)
        here == copy_visits(st, refused, resolved_old_path, resolved_new_path,
                            PathsIn(top, dirs, "dir") \o PathsIn(top, files, "file"))
    IN  IF st.err # "" THEN st
        ELSE walk_copy_dirs(here, top, dirs, refused, rev, resolved_old_path,
                            resolved_new_path)

walk_copy_dirs(st, top, dirs, refused, rev, resolved_old_path, resolved_new_path) ==
    IF dirs = <<>> \/ st.err # "" THEN st
    ELSE walk_copy_dirs(walk_copy(st, Append(top, Head(dirs)), refused, rev,
                                  resolved_old_path, resolved_new_path),
                        top, Tail(dirs), refused, rev, resolved_old_path,
                        resolved_new_path)

\* the entry branch of copy
copy_entry(f, refused, resolved_old_path, resolved_new_path) ==
    LET old == gpg_suffixed(resolved_old_path)
        new == gpg_suffixed(resolved_new_path)
        c == copy_file([fs |-> f, calls |-> <<>>, err |-> ""], refused, old, new)
    IN  Outcome(IF c.err = "" THEN "ok" ELSE c.err, c.fs, <<>>, c.calls, new)

\* the directory branch of copy: os.makedirs with its OSError swallowed,
\* then the walk
copy_directory(f, refused, rev, resolved_old_path, resolved_new_path) ==
    LET made == os_makedirs(f, resolved_new_path)
        w == walk_copy([fs |-> made.fs, calls |-> <<>>, err |-> ""],
                       resolved_old_path, refused, rev, resolved_old_path,
                       resolved_new_path)
    IN  Outcome(IF w.err = "" THEN "ok" ELSE w.err, w.fs, <<>>, w.calls,
                resolved_new_path)

\* the last branch of copy with the destination made before the source is
\* looked for
copy_missing_makedirs(f, resolved_new_path) ==
    Outcome("NotFoundError", os_makedirs(f, resolved_new_path).fs, <<>>, <<>>,
            resolved_new_path)

\* the last branch of copy: OSError(ENOENT), the spec's NotFoundError
copy_missing(f, resolved_new_path) ==
    Outcome("NotFoundError", f, <<>>, <<>>, resolved_new_path)

\* the destination of copy with the whole of old_path joined to new_path
copy_destination_joined(f, resolved, old_path) ==
    IF isdir(f, resolved) THEN resolved \o old_path ELSE resolved

\* the destination of copy: inside new_path where that is a directory
copy_destination(f, resolved, old_path) ==
    IF isdir(f, resolved) THEN Append(resolved, basename(old_path)) ELSE resolved

\* PasswordStore.copy
copy(f, cp, old_path, new_path, refused, rev) ==
    LET ro == resolve_path(cp, old_path)
        rn == resolve_path(cp, new_path)
        resolved_old_path == ro.path
        resolved_new_path == copy_destination(f, rn.path, old_path)
    IN  IF ~ro.ok \/ ~rn.ok THEN Outcome("PathEscapeError", f, <<>>, <<>>, <<>>)
        ELSE IF contains(f, cp, old_path)
             THEN copy_entry(f, refused, resolved_old_path, resolved_new_path)
        ELSE IF isdir(f, resolved_old_path)
             THEN copy_directory(f, refused, rev, resolved_old_path,
                                 resolved_new_path)
        ELSE copy_missing(f, resolved_new_path)

(* ----------------------------- command mv ------------------------------ *)

\* path + '.gpg' on a relative path, as the command line handlers build it
cli_suffixed(path) == IF path = <<>> THEN <<<<GPG_EXT>>>> ELSE gpg_suffixed(path)

\* os.path.realpath(os.path.join(store.path, path)), on a tree in which no
\* link lies on the way
cli_realpath(f, path) == realpath(f, abspath(StorePath \o path))

\* os.rename of a directory: the subtree at src is at dst afterwards
Rebased(f, src, dst) ==
    LET moved == {q \in DOMAIN f : IsSubpath(src, q)}
        to(q) == dst \o SubSeq(q, Len(src) + 1, Len(q))
    IN  [q \in (DOMAIN f \ moved) \cup {to(m) : m \in moved} |->
            IF \E m \in moved : to(m) = q
            THEN f[CHOOSE m \in moved : to(m) = q]
            ELSE f[q]]

\* shutil.move(src, dst) of an existing file or directory: [err, fs].  A
\* destination that is a directory takes the source under its own name and
\* must not hold that name yet; os.rename replaces a file by a file; where
\* os.rename fails, a file is copied (which needs the destination's
\* directory) and a directory goes through copytree (which makes the
\* directories above the destination, and needs the destination absent)
shutil_move(f, src, dst) ==
    LET real_dst == IF isdir(f, dst) THEN Append(dst, Last(src)) ELSE dst
    IN  IF isdir(f, dst) /\ dst = src THEN [err |-> "", fs |-> f]
        ELSE IF isdir(f, dst) /\ exists(f, real_dst)
             THEN [err |-> "shutil.Error", fs |-> f]
        ELSE IF isfile(f, src)
             THEN IF ~isdir(f, Front(real_dst)) THEN [err |-> "OSError", fs |-> f]
                  ELSE IF real_dst = src THEN [err |-> "", fs |-> f]
                  ELSE [err |-> "",
                        fs |-> With(Without(f, src), real_dst, f[src])]
        ELSE IF IsSubpath(src, real_dst) THEN [err |-> "shutil.Error", fs |-> f]
        ELSE IF exists(f, real_dst) \/ ~os_makedirs(f, real_dst).ok
             THEN [err |-> "OSError", fs |-> f]
        ELSE [err |-> "", fs |-> Rebased(os_makedirs(f, real_dst).fs, src, real_dst)]

\* the command mv: the directory at old_path is tried first, then the
\* entry; neither there is the message "is not in the password store"
mv(f, old_path, new_path) ==
    LET resolved_old_path == cli_realpath(f, old_path)
        old_file == cli_realpath(f, cli_suffixed(old_path))
        moved == IF isdir(f, resolved_old_path)
                 THEN shutil_move(f, resolved_old_path, cli_realpath(f, new_path))
                 ELSE shutil_move(f, old_file,
                                  cli_realpath(f, cli_suffixed(new_path)))
    IN  IF ~isdir(f, resolved_old_path) /\ ~isfile(f, old_file)
        THEN Outcome("NotInStore", f, <<>>, <<>>, old_file)
        ELSE Outcome(IF moved.err = "" THEN "ok" ELSE moved.err, moved.fs, <<>>,
                     <<>>, IF isdir(f, resolved_old_path) THEN resolved_old_path
                           ELSE old_file)

(* ------------------------------ generate ------------------------------- *)

\* string.ascii_letters, string.punctuation and string.digits
ascii_lowercase == [i \in 1..26 |-> 96 + i]
ascii_uppercase == [i \in 1..26 |-> 64 + i]
ascii_letters == ascii_lowercase \o ascii_uppercase
punctuation == [i \in 1..15 |-> 32 + i] \o [i \in 1..7 |-> 57 + i]
                   \o [i \in 1..6 |-> 90 + i] \o [i \in 1..4 |-> 122 + i]
string_digits == [i \in 1..10 |-> 47 + i]

\* the pool with the digits in it whatever the flag says
chars_always_digits(digits, symbols) ==
    ascii_letters \o (IF symbols THEN punctuation ELSE <<>>) \o string_digits

\* chars of generate_password
chars_of(digits, symbols) ==
    ascii_letters \o (IF symbols THEN punctuation ELSE <<>>)
                  \o (IF digits THEN string_digits ELSE <<>>)

\* choice(chars): the element the random source picks, given the number r
\* it has drawn
choice(chars, r) == chars[(r % Len(chars)) + 1]

\* ''.join(old_content.partition('\n')[2:]): what follows the first line
\* break, the break itself left out
RECURSIVE after_first_break(_)
after_first_break(text) ==
    IF text = <<>> THEN <<>>
    ELSE IF Head(text) = NL THEN Tail(text)
    ELSE after_first_break(Tail(text))

\* ''.join(old_content.partition('\n')[1:]): from the first line break on
RECURSIVE from_first_break(_)
from_first_break(text) ==
    IF text = <<>> THEN <<>>
    ELSE IF Head(text) = NL THEN text
    ELSE from_first_break(Tail(text))

\* generate_password taking an entry it cannot read for an empty one
generate_password_lenient(f, cp, path, digits, symbols, length, first_line_only, picks, backendOk) ==
    LET old_content == get_decrypted_password(f, cp, path, backendOk)
        content_wo_pass == IF first_line_only /\ old_content.result = "ok"
                           THEN from_first_break(old_content.ret[1])
                           ELSE <<>>
        password == [i \in 1..length |->
                        choice(chars_of(digits, symbols), picks[i])]
        written == insert_password(f, cp, path, password \o content_wo_pass,
                                   backendOk)
    IN  IF written.result # "ok" THEN written
        ELSE Outcome("ok", written.fs, <<password>>, <<>>, written.file)

\* PasswordStore.generate_password; picks are the numbers the random
\* source draws, one for each character
generate_password(f, cp, path, digits, symbols, length, first_line_only, picks, backendOk) ==
    LET old_content == get_decrypted_password(f, cp, path, backendOk)
        content_wo_pass == IF first_line_only
                           THEN from_first_break(old_content.ret[1])
                           ELSE <<>>
        chars == chars_of(digits, symbols)
        password == [i \in 1..length |-> choice(chars, picks[i])]
        written == insert_password(f, cp, path, password \o content_wo_pass,
                                   backendOk)
    IN  IF first_line_only /\ old_content.result # "ok" THEN old_content
        ELSE IF written.result # "ok" THEN written
        ELSE Outcome("ok", written.fs, <<password>>, <<>>, written.file)

(* ------------------- commands insert, generate, edit ------------------- *)

\* what git add finds at a path of the work tree: the file, or nothing
NoNode == [kind |-> "none", target |-> <<>>, enc |-> FALSE, key |-> <<>>,
           body |-> <<>>]
staged_at(f, path) ==
    LET file == abspath(StorePath \o path)
    IN  IF isfile(f, file) THEN f[realpath(f, file)] ELSE NoNode

\* PasswordStore.git_add_and_commit(path, message): the commit it makes,
\* with the file as git add finds it
git_add_and_commit(f, path, text, arg) ==
    <<[path |-> path, message |-> [text |-> text, arg |-> arg],
       staged |-> staged_at(f, path)]>>

\* is_writeable of pypass.command; answer is what the user types at the
\* prompt
is_writeable(f, path, force, answer) ==
    \/ force
    \/ ~isfile(f, cli_realpath(f, cli_suffixed(path)))
    \/ answer \in {"y", "Y"}

\* commits of a command that committed whether or not the store uses git
commits_of_unguarded(git, out, path, text) ==
    IF out.result = "ok"
    THEN git_add_and_commit(out.fs, cli_suffixed(path), text, path)
    ELSE <<>>

\* the end of the commands that write: git_add_and_commit(path + '.gpg')
\* where the store uses git, never reached when the write raised
commits_of(git, out, path, text) ==
    IF out.result = "ok" /\ git
    THEN git_add_and_commit(out.fs, cli_suffixed(path), text, path)
    ELSE <<>>

\* the command insert without --echo and --multiline: [out, commits];
\* the results "Declined" and "Mismatch" are its two sys.exit
cli_insert(f, cp, git, path, password, confirmation, force, answer, backendOk) ==
    LET written == insert_password(f, cp, path, password, backendOk)
        out == IF ~is_writeable(f, path, force, answer)
               THEN Outcome("Declined", f, <<>>, <<>>, <<>>)
               ELSE IF confirmation # password
               THEN Outcome("Mismatch", f, <<>>, <<>>, <<>>)
               ELSE written
    IN  [out |-> out,
         commits |-> commits_of(git, out, path,
                                "Add given password for %s to store.")]

\* the command generate: [out, commits]
cli_generate(f, cp, git, pass_name, no_symbols, pass_length, in_place, picks, backendOk) ==
    LET out == generate_password(f, cp, pass_name, TRUE, ~no_symbols,
                                 pass_length, in_place, picks, backendOk)
    IN  [out |-> out,
         commits |-> commits_of(git, out, pass_name,
                                IF in_place
                                THEN "Replace generated password for %s."
                                ELSE "Add generated password for %s.")]

\* the command edit: [out, commits]; edited is what the editor leaves in
\* the temporary file
cli_edit(f, cp, git, path, edited, backendOk) ==
    LET passwords == get_passwords_list(f, cp, FALSE)
        old_password == get_decrypted_password(f, cp, path, backendOk)
        written == insert_password(f, cp, path, edited, backendOk)
        out == IF \A i \in 1..Len(passwords) : passwords[i] # path
               THEN Outcome("NotInStore", f, <<>>, <<>>, <<>>)
               ELSE IF old_password.result # "ok" THEN old_password
               ELSE written
    IN  [out |-> out,
         commits |-> commits_of(git, out, path,
                                "Edited password for %s using %s")]

(* -------------------------- commands rm, cp ---------------------------- *)

\* shutil.rmtree(path) on a tree without links: the directory goes with
\* all it holds; [ok, fs], ~ok (OSError) where path is no directory
shutil_rmtree(f, path) ==
    IF isdir(f, path) /\ path # <<>>
    THEN [ok |-> TRUE,
          fs |-> [q \in {q \in DOMAIN f : ~IsSubpath(path, q)} |-> f[q]]]
    ELSE [ok |-> FALSE, fs |-> f]

\* click.confirm(..., abort=True): the answers that let the command go on
confirmed(answer) == answer \in {"y", "Y"}

\* the command rm: the directory at path is tried first, then the file
\* path + '.gpg'; "Abort" is the refusal at the prompt, "NotInStore" the
\* message "is not in the password store"
cli_rm(f, recursive, path, answer) ==
    LET resolved_path == IF isdir(f, cli_realpath(f, path))
                         THEN cli_realpath(f, path)
                         ELSE abspath(StorePath \o cli_suffixed(path))
        tree == shutil_rmtree(f, resolved_path)
        file == os_remove(f, resolved_path)
    IN  IF ~exists(f, resolved_path)
        THEN Outcome("NotInStore", f, <<>>, <<>>, resolved_path)
        ELSE IF ~confirmed(answer)
        THEN Outcome("Abort", f, <<>>, <<>>, resolved_path)
        ELSE IF recursive
        THEN Outcome(IF tree.ok THEN "ok" ELSE "OSError", tree.fs, <<>>, <<>>,
                     resolved_path)
        ELSE Outcome(IF file.ok THEN "ok" ELSE "OSError", file.fs, <<>>, <<>>,
                     resolved_path)

\* shutil.copytree(src, dst) of a directory to a destination outside it:
\* os.makedirs(dst) raises where dst exists, then every node below src is
\* copied; [err, fs]
shutil_copytree(f, src, dst) ==
    LET made == os_makedirs(f, dst)
        below == {q \in DOMAIN f : IsSubpath(src, q) /\ q # src}
        to(q) == dst \o SubSeq(q, Len(src) + 1, Len(q))
    IN  IF exists(f, dst) \/ ~made.ok THEN [err |-> "OSError", fs |-> f]
        ELSE [err |-> "",
              fs |-> [q \in DOMAIN made.fs \cup {to(m) : m \in below} |->
                         IF \E m \in below : to(m) = q
                         THEN f[CHOOSE m \in below : to(m) = q]
                         ELSE made.fs[q]]]

\* shutil.copy(src, dst): the bytes go over as with copy2
shutil_copy(f, src, dst) == shutil_copy2(f, src, dst)

\* the command cp: the directory at old_path is tried first, then the
\* entry; no prompt and no on_overwrite
cli_cp(f, old_path, new_path) ==
    LET resolved_old_path == cli_realpath(f, old_path)
        old_file == cli_realpath(f, cli_suffixed(old_path))
        copied == IF isdir(f, resolved_old_path)
                  THEN shutil_copytree(f, resolved_old_path,
                                       cli_realpath(f, new_path))
                  ELSE shutil_copy(f, old_file,
                                   cli_realpath(f, cli_suffixed(new_path)))
    IN  IF ~isdir(f, resolved_old_path) /\ ~isfile(f, old_file)
        THEN Outcome("NotInStore", f, <<>>, <<>>, old_file)
        ELSE Outcome(IF copied.err = "" THEN "ok" ELSE copied.err, copied.fs,
                     <<>>, <<>>, IF isdir(f, resolved_old_path)
                                 THEN resolved_old_path ELSE old_file)

(* ------------------------------- state --------------------------------- *)

\* the call the store has just served: its arguments and its outcome
Call(op, path, recursive, declined, rev, content, backendOk, out) ==
    [op |-> op, path |-> path, recursive |-> recursive, declined |-> declined,
     rev |-> rev, content |-> content, backendOk |-> backendOk,
     result |-> out.result, ret |-> out.ret, calls |-> out.calls,
     file |-> out.file, new_path |-> <<>>, entry |-> "None",
     digits |-> FALSE, symbols |-> FALSE, length |-> 0,
     first_line_only |-> FALSE, gpg_id |-> <<>>, clone_url |-> "None",
     force |-> FALSE, answer |-> "", on_dir |-> TRUE, on_file |-> TRUE,
     topdown |-> TRUE]

NoCall == Call("none", <<>>, FALSE, {}, FALSE, <<>>, TRUE,
               Outcome("", <<>>, <<>>, <<>>, <<>>))

Idle == last.op = "none"

K1 == <<75, 49>>
K2 == <<75, 50>>

Text0 == <<>>
Text1 == <<120, NL, 233>>

\* the contents written: empty, and two lines with a non-ASCII character
Contents == {Text0, Text1}

\* what lies around the store: the directories above it and a sibling
\* directory that holds an encrypted file
Surroundings ==
    (<<>> :> DirNode) @@ (<<Home>> :> DirNode)
    @@ (Outside :> DirNode)
    @@ (Append(Outside, <<"a", GPG_EXT>>) :> CipherFile(K1, encode(Text1)))

\* a file next to the store, named like the store plus the encryption
\* suffix
Neighbour == (StoreGpg :> CipherFile(K1, encode(Text1)))

GpgIdFile(key) == PlainFile(encode(key \o <<NL>>))

\* a store right after PasswordStore.init
FreshStore ==
    (StorePath :> DirNode)
    @@ (Append(StorePath, GpgIdName) :> GpgIdFile(K1))

\* a store in use: entry a next to directory a, entry a/b/a two
\* directories deep, and directory b with its own recipient and entry b/a
UsedStore ==
    FreshStore
    @@ (StorePath \o <<<<"a", GPG_EXT>>>> :> CipherFile(K1, encode(Text1)))
    @@ (StorePath \o <<A>> :> DirNode)
    @@ (StorePath \o <<A, B>> :> DirNode)
    @@ (StorePath \o <<A, B, <<"a", GPG_EXT>>>> :> CipherFile(K1, encode(Text1)))
    @@ (StorePath \o <<B>> :> DirNode)
    @@ (StorePath \o <<B, GpgIdName>> :> GpgIdFile(K2))
    @@ (StorePath \o <<B, <<"a", GPG_EXT>>>> :> CipherFile(K2, encode(Text1)))

\* a store in which b is a symbolic link to the directory next to the store
LinkedStore ==
    FreshStore
    @@ (StorePath \o <<<<"a", GPG_EXT>>>> :> CipherFile(K1, encode(Text1)))
    @@ (StorePath \o <<B>> :> LinkNode(Outside))

\* the git directory PasswordStore.__init__ looks for
git_dir == Append(StorePath, <<".git">>)

\* PasswordStore.__init__: a store is constructed over a root that has a
\* .gpg-id
store_constructed(f, cp) == get_gpg_id(f, cp, StorePath).ok

\* a store on an interpreter that has os.path.commonpath
Init ==
    /\ fs \in {FreshStore @@ Neighbour @@ Surroundings,
               UsedStore @@ Surroundings}
    /\ hasCommonpath = TRUE
    /\ store_constructed(fs, hasCommonpath)
    /\ uses_git = isdir(fs, git_dir)
    /\ commits = <<>>
    /\ last = NoCall
    /\ ops = 0

\* a store that holds a symbolic link
InitLink ==
    /\ fs = LinkedStore @@ Neighbour @@ Surroundings
    /\ hasCommonpath = TRUE
    /\ store_constructed(fs, hasCommonpath)
    /\ uses_git = isdir(fs, git_dir)
    /\ commits = <<>>
    /\ last = NoCall
    /\ ops = 0

\* a store on an interpreter without os.path.commonpath (before Python 3.5)
InitFallback ==
    /\ fs = UsedStore @@ Neighbour @@ Surroundings
    /\ hasCommonpath = FALSE
    /\ store_constructed(fs, hasCommonpath)
    /\ uses_git = isdir(fs, git_dir)
    /\ commits = <<>>
    /\ last = NoCall
    /\ ops = 0

\* the logical paths the operations are called with
Paths == {<<>>, <<Dot>>, <<A>>, <<B>>, <<A, B>>, <<B, A>>, <<A, B, A>>,
          <<DotDot>>, <<DotDot, A, A>>, <<DotDot, <<"store", GPG_EXT>>>>}

\* the on_entry callbacks tried on a remove: accept all, decline all, and
\* decline exactly one of the nodes the remove asks about
Declinable(path, recursive) ==
    LET calls == remove(fs, hasCommonpath, path, recursive, {}, FALSE).calls
        asked == {calls[i] : i \in 1..Len(calls)}
    IN  {{}, asked} \cup {{p} : p \in asked}

\* the caller takes the outcome of the call
Return ==
    /\ ~Idle
    /\ last' = NoCall
    /\ UNCHANGED <<fs, hasCommonpath, uses_git, commits, ops>>

Serve(call, out) ==
    /\ Idle
    /\ ops < MaxOps
    /\ fs' = out.fs
    /\ last' = call
    /\ ops' = ops + 1
    /\ UNCHANGED <<hasCommonpath, uses_git, commits>>

Contains(path) ==
    LET r == resolve_path(hasCommonpath, path)
        out == IF r.ok
               THEN Outcome("ok", fs, <<contains(fs, hasCommonpath, path)>>,
                            <<>>, gpg_suffixed(r.path))
               ELSE Outcome("PathEscapeError", fs, <<>>, <<>>, <<>>)
    IN  Serve(Call("contains", path, FALSE, {}, FALSE, <<>>, TRUE, out), out)

List(rev) ==
    LET out == Outcome("ok", fs, get_passwords_list(fs, hasCommonpath, rev),
                       <<>>, <<>>)
    IN  Serve(Call("list", <<>>, FALSE, {}, rev, <<>>, TRUE, out), out)

Read(path, backendOk) ==
    LET out == get_decrypted_password(fs, hasCommonpath, path, backendOk)
    IN  Serve(Call("read", path, FALSE, {}, FALSE, <<>>, backendOk, out), out)

Write(path, content, backendOk) ==
    LET out == insert_password(fs, hasCommonpath, path, content, backendOk)
    IN  Serve(Call("write", path, FALSE, {}, FALSE, content, backendOk, out), out)

Remove(path, recursive, declined, rev) ==
    LET out == remove(fs, hasCommonpath, path, recursive, declined, rev)
    IN  Serve(Call("remove", path, recursive, declined, rev, <<>>, TRUE, out), out)

\* a store whose directory a is no entry: entries a/a and a/b/a, and
\* directory b with its own recipient and entry b/a
CopyStore ==
    FreshStore
    @@ (StorePath \o <<A>> :> DirNode)
    @@ (StorePath \o <<A, <<"a", GPG_EXT>>>> :> CipherFile(K1, encode(Text1)))
    @@ (StorePath \o <<A, B>> :> DirNode)
    @@ (StorePath \o <<A, B, <<"a", GPG_EXT>>>> :> CipherFile(K1, encode(Text1)))
    @@ (StorePath \o <<B>> :> DirNode)
    @@ (StorePath \o <<B, GpgIdName>> :> GpgIdFile(K2))
    @@ (StorePath \o <<B, <<"a", GPG_EXT>>>> :> CipherFile(K2, encode(Text0)))

InitCopy ==
    /\ fs = CopyStore @@ Surroundings
    /\ hasCommonpath = TRUE
    /\ store_constructed(fs, hasCommonpath)
    /\ uses_git = isdir(fs, git_dir)
    /\ commits = <<>>
    /\ last = NoCall
    /\ ops = 0

\* the logical paths copy is called with: what to copy, and where to
CopySources == {<<A>>, <<B>>, <<A, A>>, <<A, B>>, <<C>>, <<DotDot, A, A>>}
CopyTargets == {<<>>, <<B>>, <<C>>, <<C, A>>, <<DotDot, A>>}

\* the on_overwrite callbacks tried on a copy: accept all, refuse all, and
\* refuse exactly one of the files the copy asks about
Refusable(old_path, new_path, rev) ==
    LET calls == copy(fs, hasCommonpath, old_path, new_path, {}, rev).calls
        asked == {calls[i][2] : i \in 1..Len(calls)}
    IN  {{}, asked} \cup {{p} : p \in asked}

Copy(old_path, new_path, refused, rev) ==
    LET out == copy(fs, hasCommonpath, old_path, new_path, refused, rev)
        call == Call("copy", old_path, FALSE, refused, rev, <<>>, TRUE, out)
    IN  Serve([call EXCEPT !.new_path = new_path], out)

NextCopy ==
    \/ Return
    \/ \E old_path \in CopySources, new_path \in CopyTargets, rev \in BOOLEAN :
           \E refused \in Refusable(old_path, new_path, rev) :
               Copy(old_path, new_path, refused, rev)
    \/ \E path \in CopySources, recursive \in BOOLEAN :
           Remove(path, recursive, {}, FALSE)

Next ==
    \/ Return
    \/ \E path \in Paths : Contains(path)
    \/ \E rev \in BOOLEAN : List(rev)
    \/ \E path \in Paths, backendOk \in BOOLEAN : Read(path, backendOk)
    \/ \E path \in Paths, content \in Contents, backendOk \in BOOLEAN :
           Write(path, content, backendOk)
    \/ \E path \in Paths, recursive \in BOOLEAN, rev \in BOOLEAN :
           \E declined \in Declinable(path, recursive) :
               Remove(path, recursive, declined, rev)

Spec == Init /\ [][Next]_vars

SpecLink == InitLink /\ [][Next]_vars

SpecFallback == InitFallback /\ [][Next]_vars

\* the paths the command mv is called with
MoveSources == {<<A>>, <<B>>, <<A, A>>, <<A, B>>, <<A, B, A>>, <<C>>,
                <<DotDot, A, A>>}
MoveTargets == {<<>>, <<A>>, <<B>>, <<C>>, <<C, A>>, <<DotDot, A>>}

Mv(old_path, new_path) ==
    LET out == mv(fs, old_path, new_path)
        call == Call("mv", old_path, FALSE, {}, FALSE, <<>>, TRUE, out)
    IN  Serve([call EXCEPT !.new_path = new_path], out)

NextMove ==
    \/ Return
    \/ \E old_path \in MoveSources, new_path \in MoveTargets :
           Mv(old_path, new_path)

SpecCopy == InitCopy /\ [][NextCopy]_vars

SpecMove == InitCopy /\ [][NextMove]_vars

\* the lines an entry is made of: a bare value, an empty line, a line for
\* each word of the three patterns, a line whose value is missing and a
\* line in which the word comes second
X == <<120>>
Y == <<121>>
FieldLines ==
    {X, <<>>, W_user \o COLON_SPACE \o X, W_login \o COLON_SPACE \o Y,
     W_username \o COLON_SPACE \o Y, W_pass \o COLON_SPACE \o X,
     W_password \o COLON_SPACE \o Y, W_host \o COLON_SPACE \o X,
     W_hostname \o COLON_SPACE \o Y, W_user \o COLON_SPACE,
     X \o W_user \o COLON_SPACE \o Y}

\* '\n'.join(lines)
RECURSIVE join_lines(_)
join_lines(lines) ==
    IF lines = <<>> THEN <<>>
    ELSE IF Len(lines) = 1 THEN Head(lines)
    ELSE Head(lines) \o <<NL>> \o join_lines(Tail(lines))

\* the contents of up to MaxLines lines
FieldContents ==
    {join_lines(lines) :
        lines \in UNION {[1..n -> FieldLines] : n \in 0..MaxLines}}

\* a store whose entry a holds one of the contents
InitRead ==
    /\ \E content \in FieldContents :
          fs = FreshStore @@ Surroundings
                 @@ (StorePath \o <<<<"a", GPG_EXT>>>> :>
                        CipherFile(K1, encode(content)))
    /\ hasCommonpath = TRUE
    /\ store_constructed(fs, hasCommonpath)
    /\ uses_git = isdir(fs, git_dir)
    /\ commits = <<>>
    /\ last = NoCall
    /\ ops = 0

EntryTypes == {"None", "username", "password", "hostname"}

ReadEntry(path, entry, backendOk) ==
    LET out == get_decrypted_password_entry(fs, hasCommonpath, path, entry,
                                            backendOk)
        call == Call("read_entry", path, FALSE, {}, FALSE, <<>>, backendOk, out)
    IN  Serve([call EXCEPT !.entry = entry], out)

NextRead ==
    \/ Return
    \/ \E path \in {<<A>>, <<C>>}, entry \in EntryTypes, backendOk \in BOOLEAN :
           ReadEntry(path, entry, backendOk)

SpecRead == InitRead /\ [][NextRead]_vars

\* a store under git: the git directory is in the store root
GitStore == UsedStore @@ (git_dir :> DirNode)

\* a store in use, under git or not
InitGenerate ==
    /\ fs \in {UsedStore @@ Surroundings, GitStore @@ Surroundings}
    /\ hasCommonpath = TRUE
    /\ store_constructed(fs, hasCommonpath)
    /\ uses_git = isdir(fs, git_dir)
    /\ commits = <<>>
    /\ last = NoCall
    /\ ops = 0

\* the paths generate is called with
GeneratePaths == {<<A>>, <<C>>, <<DotDot, A, A>>}

\* the numbers the random source is seen to draw
Randoms == {0, 60, 93}

\* the draws of one call: one number for each character
Picks(length) == [1..length -> Randoms]

GenerateCall(op, path, digits, symbols, length, first_line_only, backendOk, out) ==
    [Call(op, path, FALSE, {}, FALSE, <<>>, backendOk, out)
        EXCEPT !.digits = digits, !.symbols = symbols, !.length = length,
               !.first_line_only = first_line_only]

\* PasswordStore.generate_password called by a program
GeneratePassword(path, digits, symbols, length, first_line_only, picks, backendOk) ==
    LET out == generate_password(fs, hasCommonpath, path, digits, symbols,
                                 length, first_line_only, picks, backendOk)
    IN  /\ Idle
        /\ ops < MaxGenerate
        /\ fs' = out.fs
        /\ last' = GenerateCall("generate_password", path, digits, symbols,
                                length, first_line_only, backendOk, out)
        /\ ops' = ops + 1
        /\ UNCHANGED <<hasCommonpath, uses_git, commits>>

\* the command generate: generate_password with digits, then
\* git_add_and_commit(pass_name + '.gpg') where the store uses git; an
\* exception of generate_password ends the command before the commit
Generate(pass_name, no_symbols, pass_length, in_place, picks, backendOk) ==
    LET done == cli_generate(fs, hasCommonpath, uses_git, pass_name,
                             no_symbols, pass_length, in_place, picks,
                             backendOk)
    IN  /\ Idle
        /\ ops < MaxGenerate
        /\ fs' = done.out.fs
        /\ last' = GenerateCall("generate", pass_name, TRUE, ~no_symbols,
                                pass_length, in_place, backendOk, done.out)
        /\ commits' = commits \o done.commits
        /\ ops' = ops + 1
        /\ UNCHANGED <<hasCommonpath, uses_git>>

NextGenerate ==
    \/ Return
    \/ \E path \in GeneratePaths, digits \in BOOLEAN, symbols \in BOOLEAN,
          length \in 0..MaxLength, first_line_only \in BOOLEAN,
          backendOk \in BOOLEAN :
           \E picks \in Picks(length) :
               GeneratePassword(path, digits, symbols, length, first_line_only,
                                picks, backendOk)
    \/ \E pass_name \in GeneratePaths, no_symbols \in BOOLEAN,
          pass_length \in 0..MaxLength, in_place \in BOOLEAN,
          backendOk \in BOOLEAN :
           \E picks \in Picks(pass_length) :
               Generate(pass_name, no_symbols, pass_length, in_place, picks,
                        backendOk)

SpecGenerate == InitGenerate /\ [][NextGenerate]_vars

(* -------------------------------- init --------------------------------- *)

\* open(path, 'a') and write(bytes): the bytes go after what the file
\* holds; [ok, fs], ~ok where the parent is no directory or the path is one
open_append(f, p, bytes) ==
    LET r == realpath(f, p)
    IN  IF isdir(f, Front(p)) /\ ~isdir(f, p)
        THEN [ok |-> TRUE,
              fs |-> With(f, r, PlainFile((IF r \in DOMAIN f THEN f[r].body
                                           ELSE <<>>) \o bytes))]
        ELSE [ok |-> FALSE, fs |-> f]

\* the clone urls init is given: none, a repository that cannot be
\* reached, one holding an entry, one holding an entry and a .gpg-id
CloneUrls == {"None", "unreachable", "plain", "declared"}

\* the work tree of the repository behind a clone url
remote_tree(clone_url) ==
    IF clone_url = "plain"
    THEN (<<"c", GPG_EXT>> :> CipherFile(K2, encode(Text0)))
    ELSE IF clone_url = "declared"
    THEN (<<"c", GPG_EXT>> :> CipherFile(K2, encode(Text0)))
         @@ (GpgIdName :> GpgIdFile(K2))
    ELSE <<>>

\* git init, remote add and pull origin master in path: the git directory
\* is made, and the remote's files are checked out unless one of them
\* would overwrite a file of the work tree
git_clone(f, path, clone_url) ==
    LET remote == remote_tree(clone_url)
        repo == IF exists(f, Append(path, <<".git">>)) THEN f
                ELSE With(f, Append(realpath(f, path), <<".git">>), DirNode)
        clash == \E n \in DOMAIN remote : exists(repo, Append(path, n))
    IN  IF ~isdir(f, path) THEN f
        ELSE IF clash THEN repo
        ELSE [q \in DOMAIN repo \cup {Append(realpath(f, path), n) : n \in DOMAIN remote} |->
                 IF q \in DOMAIN repo THEN repo[q] ELSE remote[Last(q)]]

\* init up to the declaration: the folder is made where nothing is at
\* path, and the clone runs where a clone url is given; [ok, fs]
init_cloned(f, path, clone_url) ==
    LET made == IF ~exists(f, path) THEN os_makedirs(f, path)
                ELSE [ok |-> TRUE, fs |-> f]
    IN  IF ~made.ok THEN made
        ELSE IF clone_url # "None"
             THEN [ok |-> TRUE, fs |-> git_clone(made.fs, path, clone_url)]
             ELSE made

\* a declaration step that writes whether or not the file is there
init_declared_always(f, gpg_id_path, gpg_id) ==
    open_append(f, gpg_id_path, encode(gpg_id \o <<NL>>))

\* the declaration step of init: the .gpg-id is written only where nothing
\* exists at its path
init_declared(f, gpg_id_path, gpg_id) ==
    IF ~exists(f, gpg_id_path)
    THEN open_append(f, gpg_id_path, encode(gpg_id \o <<NL>>))
    ELSE [ok |-> TRUE, fs |-> f]

\* PasswordStore.init(gpg_id, path, clone_url); ret is the path of the
\* store returned, PasswordStore(path) raising where path has no .gpg-id
\* file
init(f, gpg_id, path, clone_url) ==
    LET cloned == init_cloned(f, path, clone_url)
        gpg_id_path == Append(path, GpgIdName)
        declared == init_declared(cloned.fs, gpg_id_path, gpg_id)
    IN  IF ~cloned.ok THEN Outcome("OSError", f, <<>>, <<>>, gpg_id_path)
        ELSE IF ~declared.ok
             THEN Outcome("OSError", cloned.fs, <<>>, <<>>, gpg_id_path)
        ELSE IF ~isfile(declared.fs, gpg_id_path)
             THEN Outcome("NoRecipientError", declared.fs, <<>>, <<>>, gpg_id_path)
        ELSE Outcome("ok", declared.fs, <<abspath(path)>>, <<>>, gpg_id_path)

\* the trees init is called on: no store yet, and stores in every stage
InitAny ==
    /\ fs \in {Surroundings, FreshStore @@ Surroundings,
               UsedStore @@ Surroundings, GitStore @@ Surroundings}
    /\ hasCommonpath = TRUE
    /\ uses_git = FALSE
    /\ commits = <<>>
    /\ last = NoCall
    /\ ops = 0

\* the paths init is called with: the store, a directory that holds a
\* file, two paths where nothing is, and a regular file
InitPaths == {StorePath, Outside, <<Home, C>>, <<Home, C, A>>,
              Append(Outside, <<"a", GPG_EXT>>)}

\* PasswordStore.init (and the command init, which calls it); uses_git is
\* that of the store returned
StoreInit(gpg_id, path, clone_url) ==
    LET out == init(fs, gpg_id, path, clone_url)
        call == Call("init", path, FALSE, {}, FALSE, <<>>, TRUE, out)
    IN  /\ Idle
        /\ ops < MaxOps
        /\ fs' = out.fs
        /\ last' = [call EXCEPT !.gpg_id = gpg_id, !.clone_url = clone_url]
        /\ uses_git' = IF out.result = "ok"
                       THEN isdir(out.fs, Append(path, <<".git">>))
                       ELSE uses_git
        /\ ops' = ops + 1
        /\ UNCHANGED <<hasCommonpath, commits>>

NextInit ==
    \/ Return
    \/ \E gpg_id \in {K1, K2}, path \in InitPaths, clone_url \in CloneUrls :
           StoreInit(gpg_id, path, clone_url)

SpecInit == InitAny /\ [][NextInit]_vars

\* the paths the commands that write are given
CommitPaths == {<<A>>, <<C>>, <<A, B, A>>, <<DotDot, A, A>>}

\* what the user types at the prompt of is_writeable
Answers == {"", "y", "n"}

\* the command insert
Insert(path, password, confirmation, force, answer, backendOk) ==
    LET done == cli_insert(fs, hasCommonpath, uses_git, path, password,
                           confirmation, force, answer, backendOk)
        call == Call("insert", path, FALSE, {}, FALSE, password, backendOk,
                     done.out)
    IN  /\ Idle
        /\ ops < MaxGenerate
        /\ fs' = done.out.fs
        /\ last' = [call EXCEPT !.force = force, !.answer = answer]
        /\ commits' = commits \o done.commits
        /\ ops' = ops + 1
        /\ UNCHANGED <<hasCommonpath, uses_git>>

\* the command edit
Edit(path, edited, backendOk) ==
    LET done == cli_edit(fs, hasCommonpath, uses_git, path, edited, backendOk)
    IN  /\ Idle
        /\ ops < MaxGenerate
        /\ fs' = done.out.fs
        /\ last' = Call("edit", path, FALSE, {}, FALSE, edited, backendOk,
                        done.out)
        /\ commits' = commits \o done.commits
        /\ ops' = ops + 1
        /\ UNCHANGED <<hasCommonpath, uses_git>>

NextCommit ==
    \/ Return
    \/ \E path \in CommitPaths, password \in Contents,
          confirmation \in Contents, force \in BOOLEAN, answer \in Answers,
          backendOk \in BOOLEAN :
           Insert(path, password, confirmation, force, answer, backendOk)
    \/ \E path \in CommitPaths, edited \in Contents, backendOk \in BOOLEAN :
           Edit(path, edited, backendOk)
    \/ \E pass_name \in CommitPaths, in_place \in BOOLEAN,
          backendOk \in BOOLEAN :
           \E picks \in Picks(MaxLength) :
               Generate(pass_name, TRUE, MaxLength, in_place, picks, backendOk)

SpecCommit == InitGenerate /\ [][NextCommit]_vars

\* PasswordStore._walk called with callbacks that only look
Walk(path, has_on_dir, has_on_file, topdown, rev) ==
    LET out == store_walk(fs, hasCommonpath, path, has_on_dir, has_on_file,
                          topdown, rev)
        call == Call("walk", path, FALSE, {}, rev, <<>>, TRUE, out)
    IN  Serve([call EXCEPT !.on_dir = has_on_dir, !.on_file = has_on_file,
                           !.topdown = topdown], out)

\* walks of the store as the writes of entries shape it
NextWalk ==
    \/ Return
    \/ \E path \in Paths, has_on_dir \in BOOLEAN, has_on_file \in BOOLEAN,
          topdown \in BOOLEAN, rev \in BOOLEAN :
           Walk(path, has_on_dir, has_on_file, topdown, rev)
    \/ \E path \in Paths : Write(path, Text0, TRUE)

SpecWalk == Init /\ [][NextWalk]_vars

\* the stores the commands rm and cp run on: one where a is an entry and
\* a directory, one where a is a directory only
InitCli ==
    /\ fs \in {UsedStore @@ Surroundings, CopyStore @@ Surroundings}
    /\ hasCommonpath = TRUE
    /\ store_constructed(fs, hasCommonpath)
    /\ uses_git = isdir(fs, git_dir)
    /\ commits = <<>>
    /\ last = NoCall
    /\ ops = 0

\* the paths the command rm is called with
RmPaths == {<<A>>, <<B>>, <<A, A>>, <<A, B>>, <<A, B, A>>, <<B, A>>, <<C>>,
            <<DotDot, A, A>>}

\* the command rm
Rm(recursive, path, answer) ==
    LET out == cli_rm(fs, recursive, path, answer)
        call == Call("rm", path, recursive, {}, FALSE, <<>>, TRUE, out)
    IN  Serve([call EXCEPT !.answer = answer], out)

\* the command cp
Cp(old_path, new_path) ==
    LET out == cli_cp(fs, old_path, new_path)
        call == Call("cp", old_path, FALSE, {}, FALSE, <<>>, TRUE, out)
    IN  Serve([call EXCEPT !.new_path = new_path], out)

NextCli ==
    \/ Return
    \/ \E recursive \in BOOLEAN, path \in RmPaths, answer \in Answers :
           Rm(recursive, path, answer)
    \/ \E old_path \in CopySources, new_path \in CopyTargets :
           Cp(old_path, new_path)

SpecCli == InitCli /\ [][NextCli]_vars

\* every name on the file system is one the enumeration order knows
NamesKnown ==
    \A p \in DOMAIN fs : \A i \in 1..Len(p) :
        \E j \in 1..Len(NameOrder) : NameOrder[j] = p[i]

(* ------------------------------ claims --------------------------------- *)

IsUnder(p, root) == Len(p) > Len(root) /\ SubSeq(p, 1, Len(root)) = root
InStore(p) == p = StorePath \/ IsUnder(p, StorePath)

\* the normalized join of a logical path with the store root
Joined(path) == abspath(StorePath \o path)

PathOps == {"contains", "read", "write", "remove"}

\* C1: a logical path whose normalized join with the store root is neither
\* the root nor below it makes every operation fail with PathEscapeError,
\* and the tree is left as it was.
C1_EscapeRejected ==
    [][(last'.op \in PathOps /\ ~InStore(Joined(last'.path)))
          => (last'.result = "PathEscapeError" /\ fs' = fs)]_vars

\* C2: the encrypted file an entry operation accesses for a path that
\* resolve accepts lies below the store root.
C2_AccessBelowRoot ==
    (last.op \in PathOps /\ last.result # "PathEscapeError")
        => IsUnder(last.file, StorePath)

\* C3: a logical path that passes through a symbolic link whose target is
\* outside the store root is rejected with PathEscapeError.
C3_LinkEscapeRejected ==
    [][(last'.op \in PathOps /\ InStore(Joined(last'.path))
            /\ ~InStore(realpath(fs, Joined(last'.path))))
          => last'.result = "PathEscapeError"]_vars

\* the logical path, relative to the store root, that a path argument names
Logical(path) == SubSeq(Joined(path), Len(StorePath) + 1, Len(Joined(path)))

Count(seq, x) == Cardinality({i \in 1..Len(seq) : seq[i] = x})
Elems(seq) == {seq[i] : i \in 1..Len(seq)}

IsPrefix(p, q) == Len(p) <= Len(q) /\ SubSeq(q, 1, Len(p)) = p

\* C4: after write(path, c) with a successful backend, read(path) returns
\* exactly c, whatever was stored at path before.
C4_RoundTrip ==
    (last.op = "write" /\ last.result = "ok" /\ last.backendOk)
        => LET rd == get_decrypted_password(fs, hasCommonpath, last.path, TRUE)
           IN  rd.result = "ok" /\ rd.ret = <<last.content>>

\* an entry that held two lines has been overwritten with the empty content
C4_Witness ==
    /\ last.op = "write" /\ last.result = "ok" /\ last.backendOk
    /\ last.path = <<A>> /\ last.content = Text0 /\ ops = 1
    /\ isdir(fs, StorePath \o <<A, B>>)

\* C5: after write(path, c) the path is listed exactly once; after an
\* accepted remove(path) it is not listed; an entry that is neither path
\* nor below it is listed as often after the operation as before.
C5_ListMembership ==
    [][last'.op \in {"write", "remove"} =>
       \A rev \in BOOLEAN :
          LET before == get_passwords_list(fs, hasCommonpath, rev)
              after == get_passwords_list(fs', hasCommonpath, rev)
              p == Logical(last'.path)
          IN  /\ (last'.op = "write" /\ last'.result = "ok" /\ last'.backendOk)
                    => Count(after, p) = 1
              /\ (last'.op = "remove" /\ last'.result = "ok"
                      /\ last'.declined = {})
                    => Count(after, p) = 0
              /\ last'.result # "PathEscapeError"
                    => \A q \in Elems(before) \cup Elems(after) :
                           ~IsPrefix(p, q) => Count(after, q) = Count(before, q)
      ]_vars

\* an entry has been written a second time, and the listing holds it once
C5_Witness ==
    /\ last.op = "write" /\ last.result = "ok" /\ last.backendOk /\ ops = 2
    /\ last.path = <<A, B>> /\ ~isdir(fs, StorePath \o <<B>>)
    /\ Count(get_passwords_list(fs, hasCommonpath, FALSE), <<A, B>>) = 1

\* C6: an accepted remove of an existing entry deletes the entry's file and
\* then the directories above it that are empty, from the parent upward
\* to the first non-empty directory, and never the store root.
RECURSIVE PrunedUpward(_, _)
PrunedUpward(f, d) ==
    IF d = <<>> \/ d = StorePath \/ Children(f, d) # {} THEN f
    ELSE PrunedUpward(Without(f, d), Front(d))

C6_Pruning ==
    [][(last'.op = "remove" /\ last'.result = "ok" /\ last'.calls # <<>>
            /\ resolve_path(hasCommonpath, last'.path).ok
            /\ contains(fs, hasCommonpath, last'.path)
            /\ last'.declined = {})
          => LET file == DirEntry(fs, last'.file)
             IN  fs' = PrunedUpward(Without(fs, file), Front(file))]_vars

\* C7: the store root exists and holds its .gpg-id file.
C7_RootDeclared ==
    isdir(fs, StorePath) /\ isfile(fs, Append(StorePath, GpgIdName))

\* the nodes of f at or below directory d
Subtree(f, d) == {q \in DOMAIN f : IsPrefix(d, q)}

C10_NotRecursive ==
    [][(last'.op = "remove" /\ ~last'.recursive
            /\ resolve_path(hasCommonpath, last'.path).ok
            /\ ~contains(fs, hasCommonpath, last'.path)
            /\ isdir(fs, Joined(last'.path)))
          => (last'.result = "NotRecursiveError" /\ last'.calls = <<>>
                 /\ fs' = fs)]_vars

\* directory b, which is no entry, was to be removed without recursion
C10_Witness ==
    /\ last.op = "remove" /\ ~last.recursive /\ last.path = <<B>>
    /\ last.result = "NotRecursiveError"
    /\ isfile(fs, StorePath \o <<B, <<"a", GPG_EXT>>>>)

\* C11: remove(path) and copy(old_path, new_path), called with paths that
\* resolve, fail with NotFoundError whenever the (source) path is neither
\* an existing entry nor an existing directory; the tree is then as it was
\* and no callback has been asked.
C11_NotFound ==
    [][(last'.op \in {"remove", "copy"}
            /\ resolve_path(hasCommonpath, last'.path).ok
            /\ resolve_path(hasCommonpath, last'.new_path).ok
            /\ ~contains(fs, hasCommonpath, last'.path)
            /\ ~isdir(fs, Joined(last'.path)))
          => (last'.result = "NotFoundError" /\ fs' = fs
                 /\ last'.calls = <<>>)]_vars

\* entry a/a has been removed, and a copy of it to a directory that does
\* not exist was asked for
C11_Witness ==
    /\ last.op = "copy" /\ last.path = <<A, A>> /\ last.new_path = <<C, A>>
    /\ last.result = "NotFoundError" /\ ops = 2
    /\ ~exists(fs, StorePath \o <<A, <<"a", GPG_EXT>>>>)
    /\ ~exists(fs, StorePath \o <<C>>)

\* the regular files of f below directory d
FilesBelow(f, d) == {q \in DOMAIN f : IsUnder(q, d) /\ f[q].kind = "file"}

\* the <<source file, destination file>> pairs of a copy called in tree f
CopyPairs(f, old_path, new_path) ==
    LET old == Joined(old_path)
        dest == IF isdir(f, Joined(new_path))
                THEN Append(Joined(new_path), Last(old_path))
                ELSE Joined(new_path)
    IN  IF isfile(f, gpg_suffixed(old))
        THEN {<<gpg_suffixed(old), gpg_suffixed(dest)>>}
        ELSE {<<q, dest \o SubSeq(q, Len(old) + 1, Len(q))>> :
                 q \in FilesBelow(f, old)}

CopyFound ==
    /\ last'.op = "copy"
    /\ resolve_path(hasCommonpath, last'.path).ok
    /\ resolve_path(hasCommonpath, last'.new_path).ok
    /\ (contains(fs, hasCommonpath, last'.path) \/ isdir(fs, Joined(last'.path)))

\* C12: a copy asks on_overwrite(old_file, new_file) exactly once for each
\* destination file that exists and never for one that is absent; the
\* destination then holds the source's content iff the answer was true, and
\* is as it was when the answer was false.
C12_OverwriteAsked ==
    [][CopyFound =>
         LET pairs == CopyPairs(fs, last'.path, last'.new_path)
         IN  /\ \A i \in 1..Len(last'.calls) : last'.calls[i] \in pairs
             /\ \A pr \in pairs :
                   IF isfile(fs, pr[2])
                   THEN /\ Count(last'.calls, pr) = 1
                        /\ fs'[pr[2]] = IF pr[2] \in last'.declined
                                         THEN fs[pr[2]] ELSE fs[pr[1]]
                   ELSE Count(last'.calls, pr) = 0]_vars

\* C13: where new_path resolves to an existing directory, copy(old_path,
\* new_path) of an existing entry, at any depth, with an on_overwrite that
\* does not refuse, leaves a file new_path/basename(old_path) that is
\* identical to the source, and leaves the source as it was.
C13_CopyIntoDirectory ==
    [][(CopyFound /\ contains(fs, hasCommonpath, last'.path)
            /\ isdir(fs, Joined(last'.new_path)) /\ last'.declined = {})
          => LET source == gpg_suffixed(Joined(last'.path))
                 copied == gpg_suffixed(Append(Joined(last'.new_path),
                                               Last(last'.path)))
             IN  /\ isfile(fs', copied) /\ fs'[copied] = fs[source]
                 /\ isfile(fs', source) /\ fs'[source] = fs[source]]_vars

\* entry a/a has been copied into directory b, over the entry b/a
C13_Witness ==
    /\ last.op = "copy" /\ last.path = <<A, A>> /\ last.new_path = <<B>>
    /\ last.result = "ok" /\ last.declined = {} /\ ops = 1
    /\ Len(last.calls) = 1
    /\ fs[StorePath \o <<B, <<"a", GPG_EXT>>>>] = CipherFile(K1, encode(Text1))
    /\ fs[StorePath \o <<A, <<"a", GPG_EXT>>>>] = CipherFile(K1, encode(Text1))

\* C14: copy(old_dir, new_path) with an on_overwrite that always accepts
\* leaves, for every file at r below old_dir, an identical file at r below
\* the destination root, whatever the destination was before (absent,
\* with missing directories above it, or there with some of the same
\* directories), and leaves the source subtree as it was.
C14_DirectoryReplicated ==
    [][(CopyFound /\ ~contains(fs, hasCommonpath, last'.path)
            /\ last'.declined = {})
          => /\ \A pr \in CopyPairs(fs, last'.path, last'.new_path) :
                   isfile(fs', pr[2]) /\ fs'[pr[2]] = fs[pr[1]]
             /\ \A q \in Subtree(fs, Joined(last'.path)) :
                   q \in DOMAIN fs' /\ fs'[q] = fs[q]]_vars

\* C15: a move of an existing entry leaves what copy followed by remove of
\* the source leaves: the destination entry holds the source's content, the
\* source entry is gone and the directories the move emptied are pruned as
\* remove prunes them; a path that leaves the store root is refused with
\* PathEscapeError as in copy.
C15_MoveIsCopyThenRemove ==
    [][last'.op = "mv" =>
         LET copied == copy(fs, hasCommonpath, last'.path, last'.new_path, {},
                            FALSE)
             removed == remove(copied.fs, hasCommonpath, last'.path, FALSE, {},
                               FALSE)
         IN  IF ~InStore(Joined(last'.path)) \/ ~InStore(Joined(last'.new_path))
             THEN last'.result = "PathEscapeError" /\ fs' = fs
             ELSE (isfile(fs, gpg_suffixed(Joined(last'.path)))
                      /\ copied.result = "ok")
                     => (last'.result = "ok" /\ fs' = removed.fs)]_vars

\* the recipient declared for directory d of tree f: the content of the
\* nearest .gpg-id at or above d, the store root's being the last one
RECURSIVE Declared(_, _)
Declared(f, d) ==
    IF ~InStore(d) THEN <<>>
    ELSE IF Append(d, GpgIdName) \in DOMAIN f
         THEN strip(decode(f[Append(d, GpgIdName)].body))
         ELSE Declared(f, Front(d))

\* C16: every entry file that a write, copy or move creates or changes in
\* the store is encrypted for the recipient that the nearest .gpg-id at or
\* above the entry's directory declares.
C16_RecipientGoverns ==
    [][last'.op \in {"write", "copy", "mv"} =>
         \A q \in DOMAIN fs' :
            (IsUnder(q, StorePath) /\ fs'[q].kind = "file" /\ fs'[q].enc
                 /\ (q \notin DOMAIN fs \/ fs[q] # fs'[q]))
               => fs'[q].key = Declared(fs', Front(q))]_vars

\* C17: a write whose encryption backend reports a failure fails with
\* EncryptionError; it is never reported to the caller as done.
C17_EncryptionFailureReported ==
    (last.op = "write" /\ ~last.backendOk
         /\ last.result \notin {"PathEscapeError", "OSError", "NoRecipientError"})
        => last.result = "EncryptionError"

GenerateOps == {"generate", "generate_password"}

\* C18: generate(path, first_line_only=true) on an entry that does not
\* exist fails with the error of read for an absent file (DecryptionError)
\* and writes nothing: no file appears at path and no commit is made.
C18_GenerateInPlaceAbsent ==
    [][(last'.op \in GenerateOps /\ last'.first_line_only
            /\ resolve_path(hasCommonpath, last'.path).ok
            /\ ~contains(fs, hasCommonpath, last'.path))
          => /\ last'.result = "DecryptionError"
             /\ last'.result = get_decrypted_password(fs, hasCommonpath,
                                                       last'.path, TRUE).result
             /\ last'.ret = <<>>
             /\ fs' = fs
             /\ ~contains(fs', hasCommonpath, last'.path)
             /\ commits' = commits]_vars

\* on a store under git, the command generate was to replace the first
\* line of entry c, which does not exist
C18_Witness ==
    /\ last.op = "generate" /\ last.first_line_only /\ last.path = <<C>>
    /\ last.backendOk /\ last.length = 1 /\ uses_git
    /\ last.result = "DecryptionError" /\ commits = <<>>
    /\ ~exists(fs, StorePath \o <<<<"c", GPG_EXT>>>>)

\* the lines of a text: the pieces between its line breaks
RECURSIVE Lines(_, _)
Lines(text, line) ==
    IF text = <<>> THEN <<line>>
    ELSE IF Head(text) = NL THEN <<line>> \o Lines(Tail(text), <<>>)
    ELSE Lines(Tail(text), Append(line, Head(text)))

\* the values a line gives for 'word: value', each with the position of
\* the word in the line: the value is what follows ': ' and is not empty
ValuesIn(line, words) ==
    {<<i, SubSeq(line, i + Len(words[k]) + 2, Len(line))>> :
        <<i, k>> \in {ik \in (1..Len(line)) \X (1..Len(words)) :
            /\ ik[1] + Len(words[ik[2]]) + 2 <= Len(line)
            /\ SubSeq(line, ik[1], ik[1] + Len(words[ik[2]]) + 1)
                   = words[ik[2]] \o <<58, 32>>}}

\* the value of the first line that has one (its leftmost), as <<value>>,
\* or <<>> where no line has one
FirstValue(lines, words) ==
    LET having == {n \in 1..Len(lines) : ValuesIn(lines[n], words) # {}}
        n == CHOOSE m \in having : \A o \in having : m <= o
        vs == ValuesIn(lines[n], words)
        v == CHOOSE w \in vs : \A u \in vs : w[1] <= u[1]
    IN  IF having = {} THEN <<>> ELSE <<v[2]>>

\* C19: read(path, field) takes the first match: for password the value of
\* the first 'password: ' / 'pass: ' line, or the first line of the content
\* where there is none; for username and hostname the value of the first
\* 'username|user|login: ' / 'host|hostname: ' line, and no value, without
\* an error, where there is none.
C19_FirstMatchWins ==
    (last.op = "read_entry" /\ last.result = "ok" /\ last.entry # "None")
        => LET lines == Lines(decode(fs[last.file].body), <<>>)
               username == FirstValue(lines, <<W_username, W_user, W_login>>)
               password == FirstValue(lines, <<W_password, W_pass>>)
               hostname == FirstValue(lines, <<W_host, W_hostname>>)
           IN  /\ last.entry = "username" => last.ret = username
               /\ last.entry = "hostname" => last.ret = hostname
               /\ last.entry = "password"
                     => last.ret = IF password = <<>> THEN <<lines[1]>>
                                   ELSE password

\* the username was read from an entry with a user line before a login
\* line
C19_Witness ==
    /\ last.op = "read_entry" /\ last.result = "ok" /\ last.entry = "username"
    /\ decode(fs[last.file].body)
           = W_user \o <<58, 32, 120, NL>> \o W_login \o <<58, 32, 121>>
    /\ last.ret = <<<<120>>>>

\* the characters generate may use
Letters == (65..90) \cup (97..122)
Digits == 48..57
Symbols == (33..47) \cup (58..64) \cup (91..96) \cup (123..126)

\* C20: for every length >= 0, generate returns exactly length characters,
\* each an ASCII letter, or a digit where use_digits is set, or one of the
\* fixed symbols where use_symbols is set; length zero gives the empty
\* credential.
C20_GeneratedFromPool ==
    (last.op \in GenerateOps /\ last.result = "ok")
        => LET password == last.ret[1]
               allowed == Letters \cup (IF last.digits THEN Digits ELSE {})
                                  \cup (IF last.symbols THEN Symbols ELSE {})
               chars == chars_of(last.digits, last.symbols)
           IN  /\ Len(password) = last.length
               /\ \A i \in 1..Len(password) : password[i] \in allowed
               \* and so for whatever else the random source could draw
               /\ \A r \in 0..(Len(chars) - 1) : choice(chars, r) \in allowed

\* one character was generated with symbols and without digits: the
\* closing parenthesis
C20_Witness ==
    /\ last.op = "generate_password" /\ last.result = "ok"
    /\ ~last.digits /\ last.symbols /\ last.length = 1
    /\ last.ret = <<<<41>>>>

\* the content stored in the file of the call just served
StoredIn(f, file) == decode(f[realpath(f, file)].body)

\* the positions of the line breaks of a text
Breaks(text) == {i \in 1..Len(text) : text[i] = NL}

\* a text from its first line break on; empty where it has one line
Remainder(text) ==
    IF Breaks(text) = {} THEN <<>>
    ELSE SubSeq(text, CHOOSE i \in Breaks(text) : \A j \in Breaks(text) : i <= j,
                Len(text))

\* C21: after a generate with first_line_only on an existing entry that
\* returned with a working backend, the stored content is the returned
\* credential of the requested length followed by the old content from its
\* first line break on, so the lines after the first are the old ones;
\* without first_line_only the stored content is the returned credential.
C21_FirstLineSplice ==
    [][(last'.op \in GenerateOps /\ last'.result = "ok" /\ last'.backendOk)
          => LET password == last'.ret[1]
                 stored == StoredIn(fs', last'.file)
             IN  /\ Len(password) = last'.length
                 /\ ~last'.first_line_only => stored = password
                 /\ last'.first_line_only =>
                        LET old == StoredIn(fs, last'.file)
                        IN  /\ stored = password \o Remainder(old)
                            /\ Tail(Lines(stored, <<>>)) = Tail(Lines(old, <<>>))]_vars

\* the first line of the two-line entry a was replaced by one generated
\* character and its second line is still there
C21_Witness ==
    /\ last.op = "generate_password" /\ last.first_line_only
    /\ last.path = <<A>> /\ last.length = 1 /\ last.result = "ok"
    /\ last.backendOk
    /\ StoredIn(fs, last.file) = last.ret[1] \o <<NL, 233>>

\* the node a path names
NodeAt(f, p) == f[realpath(f, p)]

\* C22: init never overwrites a recipient declaration.  Where path is a
\* directory by the declaration step: a .gpg-id there before the call or
\* brought by the clone is afterwards what it was, an absent one is created
\* holding the recipient and a newline, and init returns a store bound to
\* path.
C22_InitKeepsDeclaration ==
    [][(last'.op = "init"
            /\ isdir(init_cloned(fs, last'.path, last'.clone_url).fs, last'.path))
          => LET before == init_cloned(fs, last'.path, last'.clone_url).fs
                 gpg_id_path == Append(last'.path, GpgIdName)
             IN  /\ exists(fs, gpg_id_path)
                        => NodeAt(fs', gpg_id_path) = NodeAt(fs, gpg_id_path)
                 /\ exists(before, gpg_id_path)
                        => NodeAt(fs', gpg_id_path) = NodeAt(before, gpg_id_path)
                 /\ ~exists(before, gpg_id_path)
                        => NodeAt(fs', gpg_id_path)
                               = PlainFile(encode(last'.gpg_id) \o <<NL>>)
                 /\ last'.result = "ok"
                 /\ last'.ret = <<last'.path>>]_vars

\* init with recipient K2 on the store declared for K1 returned the store
\* and left the declaration of K1
C22_Witness ==
    /\ last.op = "init" /\ last.path = StorePath /\ last.gpg_id = K2
    /\ last.clone_url = "declared" /\ last.result = "ok"
    /\ NodeAt(fs, Append(StorePath, GpgIdName)) = GpgIdFile(K1)

CommitOps == {"insert", "generate", "edit"}

\* the commit message of the command just served
MessageOf(call) ==
    [text |-> IF call.op = "insert" THEN "Add given password for %s to store."
              ELSE IF call.op = "edit" THEN "Edited password for %s using %s"
              ELSE IF call.first_line_only
                   THEN "Replace generated password for %s."
                   ELSE "Add generated password for %s.",
     arg |-> call.path]

\* C23: a command that writes an entry (insert, generate, edit) makes no
\* commit on a store without git; on a store with git, when it has written
\* the entry it makes exactly one commit, of the entry's file as the write
\* left it and with the command's message, and none when it wrote nothing
\* because it ended early.
C23_CommitAfterWrite ==
    [][last'.op \in CommitOps
          => /\ ~uses_git => commits' = commits
             /\ (uses_git /\ last'.result = "ok" /\ last'.backendOk)
                    => commits' = Append(commits,
                           [path |-> cli_suffixed(last'.path),
                            message |-> MessageOf(last'),
                            staged |-> NodeAt(fs', last'.file)])
             /\ last'.result # "ok" => commits' = commits]_vars

\* on a store under git the command insert wrote the new entry c and
\* committed its file
C23_Witness ==
    /\ last.op = "insert" /\ last.path = <<C>> /\ last.result = "ok"
    /\ last.backendOk /\ uses_git /\ Len(commits) = 1
    /\ commits[1].path = <<<<"c", GPG_EXT>>>>
    /\ commits[1].staged = CipherFile(K1, encode(last.content))

\* C24: insert or generate run on an existing entry without --force and
\* without the answer y or Y leaves the entry's content as it was.
C24_OverwriteGuard ==
    [][(last'.op \in {"insert", "generate"} /\ ~last'.force
            /\ last'.answer \notin {"y", "Y"}
            /\ resolve_path(hasCommonpath, last'.path).ok
            /\ contains(fs, hasCommonpath, last'.path))
          => LET file == gpg_suffixed(resolve_path(hasCommonpath, last'.path).path)
             IN  NodeAt(fs', file) = NodeAt(fs, file)]_vars

\* the nodes remove is to consider: the entry's file, or every node of the
\* directory's subtree where the removal is recursive
Candidates(f, call) ==
    IF ~resolve_path(hasCommonpath, call.path).ok THEN {}
    ELSE IF contains(f, hasCommonpath, call.path)
    THEN {gpg_suffixed(Joined(call.path))}
    ELSE IF isdir(f, Joined(call.path)) /\ call.recursive
    THEN Subtree(f, Joined(call.path))
    ELSE {}

\* C25: remove deletes a node only after on_entry was called with its path
\* and answered true; every candidate is passed to on_entry; a node
\* on_entry answered false for exists when remove returns.
C25_OnEntryGates ==
    [][last'.op = "remove"
          => /\ \A q \in DOMAIN fs \ DOMAIN fs' :
                    q \in Elems(last'.calls) /\ q \notin last'.declined
             /\ Candidates(fs, last') \subseteq Elems(last'.calls)
             /\ \A q \in Elems(last'.calls) \cap last'.declined :
                    q \in DOMAIN fs']_vars

\* C26: a recursive remove of a directory whose on_entry declines one file
\* and accepts everything else returns without raising, keeps the declined
\* file and the directories above it, and removes every other node of the
\* subtree.
C26_DeclinedFileKept ==
    [][(last'.op = "remove" /\ last'.recursive
            /\ resolve_path(hasCommonpath, last'.path).ok
            /\ ~contains(fs, hasCommonpath, last'.path)
            /\ isdir(fs, Joined(last'.path))
            /\ \E d \in Subtree(fs, Joined(last'.path)) :
                   last'.declined = {d} /\ fs[d].kind = "file")
          => LET d == CHOOSE d \in last'.declined : TRUE
                 kept == {q \in Subtree(fs, Joined(last'.path)) : IsPrefix(q, d)}
             IN  /\ last'.result = "ok"
                 /\ \A q \in kept : q \in DOMAIN fs'
                 /\ \A q \in Subtree(fs, Joined(last'.path)) \ kept :
                        q \notin DOMAIN fs']_vars

\* the nodes below the root of the walk just served whose category has a
\* callback
Reported(f, call) ==
    {q \in DOMAIN f : /\ IsUnder(q, Joined(call.path))
                      /\ \/ f[q].kind = "dir" /\ call.on_dir
                         \/ f[q].kind = "file" /\ call.on_file}

\* C27: a walk reports every directory and every file below its root once,
\* by its absolute path and in its category, leaving out a category that
\* has no callback; top-down a directory comes before every node inside
\* it, bottom-up after every node inside it.
C27_WalkOrder ==
    (last.op = "walk" /\ last.result = "ok")
        => /\ \A q \in Reported(fs, last) :
                  Cardinality({i \in 1..Len(last.calls) :
                                   last.calls[i].path = q}) = 1
           /\ \A i \in 1..Len(last.calls) :
                  /\ last.calls[i].path \in Reported(fs, last)
                  /\ last.calls[i].kind = fs[last.calls[i].path].kind
           /\ \A i, j \in 1..Len(last.calls) :
                  (last.calls[i].kind = "dir"
                       /\ IsUnder(last.calls[j].path, last.calls[i].path))
                      => IF last.topdown THEN i < j ELSE j < i

\* a bottom-up walk of the whole store reported a/b/a.gpg, then a/b, then a
C27_Witness ==
    /\ last.op = "walk" /\ ~last.topdown /\ last.path = <<>>
    /\ last.on_dir /\ last.on_file /\ last.result = "ok"
    /\ \E i, j, k \in 1..Len(last.calls) :
           /\ i < j /\ j < k
           /\ last.calls[i].path = StorePath \o <<A, B, <<"a", GPG_EXT>>>>
           /\ last.calls[j].path = StorePath \o <<A, B>>
           /\ last.calls[k].path = StorePath \o <<A>>

\* C28: copy of a directory to a destination inside that directory returns
\* without an error, and the destination then holds one copy of each file
\* the source held before the call, and no other file.
C28_CopyIntoItself ==
    [][(last'.op = "copy" /\ last'.declined = {}
            /\ resolve_path(hasCommonpath, last'.path).ok
            /\ resolve_path(hasCommonpath, last'.new_path).ok
            /\ ~contains(fs, hasCommonpath, last'.path)
            /\ isdir(fs, Joined(last'.path))
            /\ IsUnder(copy_destination(fs, Joined(last'.new_path), last'.path),
                       Joined(last'.path)))
          => LET src == Joined(last'.path)
                 dst == copy_destination(fs, Joined(last'.new_path), last'.path)
                 files == {q \in Subtree(fs, src) : fs[q].kind = "file"}
                 image(q) == dst \o SubSeq(q, Len(src) + 1, Len(q))
             IN  /\ last'.result = "ok"
                 /\ \A q \in files : /\ image(q) \in DOMAIN fs'
                                     /\ fs'[image(q)] = fs[q]
                 /\ {q \in Subtree(fs', dst) : fs'[q].kind = "file"}
                        = {image(q) : q \in files}]_vars

\* C29: the command rm ends in the tree and the outcome (done or failed)
\* of PasswordStore.remove called with the same path and recursive and with
\* an on_entry that answers as the user did; the command cp ends in the
\* tree and the outcome of PasswordStore.copy called with the same paths.
C29_CommandsRefineStore ==
    [][/\ last'.op = "rm"
            => LET asked == remove(fs, hasCommonpath, last'.path,
                                   last'.recursive, {}, FALSE).calls
                   ref == remove(fs, hasCommonpath, last'.path, last'.recursive,
                                 IF confirmed(last'.answer) THEN {}
                                 ELSE Elems(asked), FALSE)
               IN  /\ fs' = ref.fs
                   /\ confirmed(last'.answer)
                          => (last'.result = "ok") = (ref.result = "ok")
       /\ last'.op = "cp"
            => LET ref == copy(fs, hasCommonpath, last'.path, last'.new_path,
                               {}, FALSE)
               IN  /\ fs' = ref.fs
                   /\ (last'.result = "ok") = (ref.result = "ok")]_vars

====
